---- MODULE Spec2Model ----
(***************************************************************************)
(* State-machine model of datasets/features/image.py: the Image feature    *)
(* (its _storage_dtype field, encode_example, decode_example, __call__),   *)
(* the _ImageExtensionType wrapper (construction and __reduce__), and the  *)
(* helpers image_to_bytes / encode_list_of_images.                         *)
(*                                                                         *)
(* Spec      one caller: calls run one after the other; decode_example is  *)
(*           split at its observable points (import, dispatch, the body    *)
(*           and the exit of the `with` block, the return).                *)
(* BatchSpec encode_list_of_images on lists of images, some of which PNG   *)
(*           cannot store.                                                 *)
(* ConcSpec  several threads each run one encode_example call on the same  *)
(*           Image object; a thread switch may happen between the type     *)
(*           test, the attribute store and the return.                     *)
(***************************************************************************)
EXTENDS Integers, Sequences, FiniteSets, TLC

\* ---------------------------------------------------------------- bounds
MaxData == 1        \* payloads 0..MaxData (for a dict: 0 = no "bytes" key)
MaxLen == 3         \* longest list given to encode_list_of_images
NImages == 2        \* distinct pixel contents
NThreads == 2       \* concurrent encode_example calls

\* ---------------------------------------------------------------- values
\* The Python type of a value, as the isinstance tests see it.
Kinds == {"str", "bytes", "ndarray", "dict", "other"}

Values == [kind : Kinds, data : 0..MaxData]

NoValue == [kind |-> "NoValue", data |-> 0]

\* A local name that has not been assigned (decode_example's `image`).
Unbound == [source |-> "unbound", data |-> 0, materialized |-> FALSE]

\* PIL images handed to image_to_bytes: PNG cannot store every mode.
Modes == {"RGB", "CMYK"}

Images == [mode : Modes, pixels : 1..NImages]

RECURSIVE SeqsUpTo(_, _)
SeqsUpTo(S, n) ==
    IF n = 0 THEN {<<>>}
    ELSE LET shorter == SeqsUpTo(S, n - 1)
         IN  shorter \cup {Append(s, x) : s \in {q \in shorter : Len(q) = n - 1}, x \in S}

\* ------------------------------------------------------ _ImageExtensionType
pa_string == [name |-> "string", fields |-> <<>>]

pa_binary == [name |-> "binary", fields |-> <<>>]

pa_struct == [name |-> "struct",
              fields |-> << <<"path", "string">>, <<"bytes", "binary">> >>]

\* Mutant: the "bytes" branch tests for the wrong spelling, so raw bytes fall
\* through to the struct type.
m_ImageExtensionType_binary(dtype) ==
    [cls |-> "_ImageExtensionType",
     storage_dtype |-> dtype,
     storage_type |-> IF dtype = "string" THEN pa_string
                      ELSE IF dtype = "binary" THEN pa_binary
                      ELSE pa_struct]

\* _ImageExtensionType.__init__: the stored parameter, the physical type chosen
\* from it, and the extension class that tags the physical type.
ImageExtensionType(dtype) ==
    [cls |-> "_ImageExtensionType",
     storage_dtype |-> dtype,
     storage_type |-> IF dtype = "string" THEN pa_string
                      ELSE IF dtype = "bytes" THEN pa_binary
                      ELSE pa_struct]

\* Mutant: __reduce__ forgets the constructor argument.
m_reduce_no_args(w) == [cls |-> w.cls, args |-> <<>>]

\* _ImageExtensionType.__reduce__: (callable, argument tuple).
reduce(w) == [cls |-> w.cls, args |-> <<w.storage_dtype>>]

\* Unpickling a reduce value: call the callable on the argument tuple.
\* __init__ takes exactly one argument; any other class is not this wrapper.
reconstruct(r) ==
    IF r.cls = "_ImageExtensionType" /\ Len(r.args) = 1
    THEN ImageExtensionType(r.args[1])
    ELSE [cls |-> r.cls, storage_dtype |-> "", storage_type |-> pa_string]

\* ------------------------------------------------------------ Image.encode
\* Mutant: a path string resets the field to its default.
m_encode_example_dtype_str_resets(cur, v) ==
    IF v.kind \in {"bytes", "ndarray"} THEN "bytes"
    ELSE IF v.kind = "dict" THEN "struct"
    ELSE IF v.kind = "str" THEN "string"
    ELSE cur

\* Mutant: a final else branch stores the default.
m_encode_example_dtype_else_default(cur, v) ==
    IF v.kind \in {"bytes", "ndarray"} THEN "bytes"
    ELSE IF v.kind = "dict" THEN "struct"
    ELSE "string"

\* Mutant: isinstance(value, bytes) only; arrays are not classified.
m_encode_example_dtype_no_ndarray(cur, v) ==
    IF v.kind = "bytes" THEN "bytes"
    ELSE IF v.kind = "dict" THEN "struct"
    ELSE cur

\* The field encode_example stores for a value: the isinstance chain.
encode_example_dtype(cur, v) ==
    IF v.kind \in {"bytes", "ndarray"} THEN "bytes"
    ELSE IF v.kind = "dict" THEN "struct"
    ELSE cur

\* Mutant: a path string is returned wrapped as a {path, bytes} record.
m_encode_example_return_wraps_path(v) ==
    IF v.kind = "str" THEN [kind |-> "dict", data |-> 0] ELSE v

\* `return value`
encode_example_return(v) == v

\* ----------------------------------------------------------- batch helpers
\* image_to_bytes: image.save(buffer, format="PNG"); buffer.getvalue().
image_to_bytes(img) ==
    IF img.mode = "CMYK"
    THEN [exc |-> "OSError", val |-> <<>>]
    ELSE [exc |-> "", val |-> <<"PNG", img.mode, img.pixels>>]

\* Mutant: the results are collected in reverse order.
RECURSIVE m_encode_list_of_images_reversed(_)
m_encode_list_of_images_reversed(images) ==
    IF images = <<>> THEN [exc |-> "", val |-> <<>>]
    ELSE LET h == image_to_bytes(Head(images))
         IN  IF h.exc # "" THEN [exc |-> h.exc, val |-> NoValue]
             ELSE LET r == m_encode_list_of_images_reversed(Tail(images))
                  IN  IF r.exc # "" THEN r
                      ELSE [exc |-> "", val |-> r.val \o <<h.val>>]

\* The list comprehension, left to right; the first failure ends it.
RECURSIVE encode_list_of_images(_)
encode_list_of_images(images) ==
    IF images = <<>> THEN [exc |-> "", val |-> <<>>]
    ELSE LET h == image_to_bytes(Head(images))
         IN  IF h.exc # "" THEN [exc |-> h.exc, val |-> NoValue]
             ELSE LET r == encode_list_of_images(Tail(images))
                  IN  IF r.exc # "" THEN r
                      ELSE [exc |-> "", val |-> <<h.val>> \o r.val]

\* ------------------------------------------------------------------ state
VARIABLES
    storage_dtype,  \* Image._storage_dtype
    id,             \* Image.id
    pc,             \* position of the call in progress ("idle": none)
    arg,            \* argument of the call in progress / last call
    ret,            \* outcome of the last finished call
    f,              \* the stream of decode_example's `with`: none, open, closed
    image,          \* decode_example's local `image`
    exc,            \* exception travelling out of the `with` block
    pa_type,        \* the wrapper last built by __call__
    pickled,        \* its __reduce__ value
    rebuilt,        \* the wrapper rebuilt from the reduce value
    before,         \* history: the object's fields when the last call began
    lastEnc,        \* history: the value of the last encode_example call
    lastNonStr,     \* history: the last encoded bytes / ndarray / dict value
    tpc,            \* ConcSpec: each thread's position
    tval,           \* ConcSpec: each thread's argument
    tret,           \* ConcSpec: each thread's return value
    lastWriter      \* ConcSpec history: the thread that stored last (0: none)

svars == <<id, pc, arg, ret, f, image, exc, pa_type, pickled, rebuilt,
           before, lastEnc, lastNonStr>>

cvars == <<tpc, tval, tret, lastWriter>>

vars == <<storage_dtype, svars, cvars>>

Threads == 1..NThreads

Ids == {"None", "image"}

Result(op, e, v) == [op |-> op, exc |-> e, val |-> v]

\* Image(): the dataclass defaults; id is the caller's choice.
Init ==
    /\ storage_dtype = "string"
    /\ id \in Ids
    /\ pc = "idle"
    /\ arg = NoValue
    /\ ret = Result("__init__", "", NoValue)
    /\ f = "none"
    /\ image = Unbound
    /\ exc = ""
    /\ pa_type = NoValue
    /\ pickled = NoValue
    /\ rebuilt = NoValue
    /\ before = [storage_dtype |-> "string", id |-> id]
    /\ lastEnc = NoValue
    /\ lastNonStr = NoValue
    /\ tpc = [t \in Threads |-> "idle"]
    /\ tval = [t \in Threads |-> NoValue]
    /\ tret = [t \in Threads |-> NoValue]
    /\ lastWriter = 0

\* A call begins: the previous call's locals are gone.
Begin(a) ==
    /\ pc = "idle"
    /\ arg' = a
    /\ before' = [storage_dtype |-> storage_dtype, id |-> id]
    /\ f' = "none"
    /\ image' = Unbound
    /\ exc' = ""

\* --------------------------------------------------------- Image (one caller)
\* encode_example(value)
EncodeExample(v) ==
    /\ Begin(v)
    /\ storage_dtype' = encode_example_dtype(storage_dtype, v)
    /\ ret' = Result("encode_example", "", encode_example_return(v))
    /\ lastEnc' = v
    /\ lastNonStr' = IF v.kind \in {"bytes", "ndarray", "dict"} THEN v ELSE lastNonStr
    /\ UNCHANGED <<id, pc, pa_type, pickled, rebuilt, cvars>>

\* __call__(): a fresh wrapper for the current field.
Call ==
    /\ Begin(NoValue)
    /\ pa_type' = ImageExtensionType(storage_dtype)
    /\ ret' = Result("__call__", "", pa_type')
    /\ pickled' = NoValue
    /\ rebuilt' = NoValue
    /\ UNCHANGED <<storage_dtype, id, pc, lastEnc, lastNonStr, cvars>>

\* pa_type.__reduce__(), as the serializer calls it.
Reduce ==
    /\ pa_type # NoValue
    /\ Begin(NoValue)
    /\ pickled' = reduce(pa_type)
    /\ ret' = Result("__reduce__", "", pickled')
    /\ rebuilt' = NoValue
    /\ UNCHANGED <<storage_dtype, id, pc, pa_type, lastEnc, lastNonStr, cvars>>

\* The deserializer applies the reduce value.
Reconstruct ==
    /\ pickled # NoValue
    /\ Begin(NoValue)
    /\ rebuilt' = reconstruct(pickled)
    /\ ret' = Result("reconstruct", "", rebuilt')
    /\ UNCHANGED <<storage_dtype, id, pc, pa_type, pickled, lastEnc, lastNonStr, cvars>>

\* encode_list_of_images(images): touches no Image object.
EncodeListOfImages(images) ==
    /\ Begin(images)
    /\ LET r == encode_list_of_images(images)
       IN  ret' = Result("encode_list_of_images", r.exc, r.val)
    /\ UNCHANGED <<storage_dtype, id, pc, pa_type, pickled, rebuilt,
                   lastEnc, lastNonStr, cvars>>

\* ------------------------------------------------------ Image.decode_example
Raise(e) ==
    /\ ret' = Result("decode_example", e, NoValue)
    /\ pc' = "idle"

\* PIL.Image.open(stream): the image object it hands back. The codec decides how
\* much of the stream it has read by then; decode_example never asks it to load.
PIL_Image_open(source, data, materialized) ==
    [source |-> source, data |-> data, materialized |-> materialized]

\* Mutant: `image = None` before the branches, so the fall-through returns None.
m_decode_example_return_none(img) ==
    IF img.source = "unbound"
    THEN Result("decode_example", "", NoValue)
    ELSE Result("decode_example", "", img)

\* `return image`: reading a local that no branch assigned raises.
decode_example_return(img) ==
    IF img.source = "unbound"
    THEN Result("decode_example", "UnboundLocalError", NoValue)
    ELSE Result("decode_example", "", img)

\* decode_example(value) is entered.
DecodeBegin(v) ==
    /\ Begin(v)
    /\ pc' = "import"
    /\ UNCHANGED <<storage_dtype, id, ret, pa_type, pickled, rebuilt,
                   lastEnc, lastNonStr, cvars>>

\* try: import PIL.Image / except ImportError: raise ImportError(...)
DecodeImport ==
    /\ pc = "import"
    /\ \E installed \in BOOLEAN :
         IF installed THEN pc' = "dispatch" /\ ret' = ret
         ELSE Raise("ImportError")
    /\ UNCHANGED <<storage_dtype, id, arg, f, image, exc, pa_type, pickled, rebuilt,
                   before, lastEnc, lastNonStr, cvars>>

\* isinstance(value, str): xopen(value, "rb") and entry into the `with` block.
DecodeStr ==
    /\ pc = "dispatch"
    /\ arg.kind = "str"
    /\ \E readable \in BOOLEAN :
         IF readable THEN f' = "open" /\ pc' = "with_body" /\ ret' = ret
         ELSE f' = f /\ Raise("ResourceUnreadable")
    /\ UNCHANGED <<storage_dtype, id, arg, image, exc, pa_type, pickled, rebuilt,
                   before, lastEnc, lastNonStr, cvars>>

\* image = PIL.Image.open(f), inside the `with` block.
DecodeWithBody ==
    /\ pc = "with_body"
    /\ \E wellformed \in BOOLEAN, materialized \in BOOLEAN :
         IF wellformed
         THEN image' = PIL_Image_open("xopen", arg.data, materialized) /\ exc' = exc
         ELSE image' = image /\ exc' = "MalformedImage"
    /\ pc' = "with_exit"
    /\ UNCHANGED <<storage_dtype, id, arg, ret, f, pa_type, pickled, rebuilt,
                   before, lastEnc, lastNonStr, cvars>>

\* The `with` block is left: f.close(), then the exception, if any, goes on.
DecodeWithExit ==
    /\ pc = "with_exit"
    /\ f' = "closed"
    /\ IF exc # "" THEN Raise(exc) ELSE pc' = "return" /\ ret' = ret
    /\ UNCHANGED <<storage_dtype, id, arg, image, exc, pa_type, pickled, rebuilt,
                   before, lastEnc, lastNonStr, cvars>>

\* isinstance(value, bytes): PIL.Image.open(BytesIO(value)).
DecodeBytes ==
    /\ pc = "dispatch"
    /\ arg.kind = "bytes"
    /\ \E wellformed \in BOOLEAN, materialized \in BOOLEAN :
         IF wellformed
         THEN /\ image' = PIL_Image_open("BytesIO", arg.data, materialized)
              /\ pc' = "return" /\ ret' = ret
         ELSE image' = image /\ Raise("MalformedImage")
    /\ UNCHANGED <<storage_dtype, id, arg, f, exc, pa_type, pickled, rebuilt,
                   before, lastEnc, lastNonStr, cvars>>

\* isinstance(value, dict): PIL.Image.open(BytesIO(value["bytes"])).
DecodeDict ==
    /\ pc = "dispatch"
    /\ arg.kind = "dict"
    /\ IF arg.data = 0
       THEN image' = image /\ Raise("KeyError")
       ELSE \E wellformed \in BOOLEAN, materialized \in BOOLEAN :
              IF wellformed
              THEN /\ image' = PIL_Image_open("BytesIO", arg.data, materialized)
                   /\ pc' = "return" /\ ret' = ret
              ELSE image' = image /\ Raise("MalformedImage")
    /\ UNCHANGED <<storage_dtype, id, arg, f, exc, pa_type, pickled, rebuilt,
                   before, lastEnc, lastNonStr, cvars>>

\* No isinstance test matches: there is no else branch.
DecodeFallThrough ==
    /\ pc = "dispatch"
    /\ arg.kind \notin {"str", "bytes", "dict"}
    /\ pc' = "return"
    /\ UNCHANGED <<storage_dtype, id, arg, ret, f, image, exc, pa_type, pickled,
                   rebuilt, before, lastEnc, lastNonStr, cvars>>

\* return image
DecodeReturn ==
    /\ pc = "return"
    /\ ret' = decode_example_return(image)
    /\ pc' = "idle"
    /\ UNCHANGED <<storage_dtype, id, arg, f, image, exc, pa_type, pickled, rebuilt,
                   before, lastEnc, lastNonStr, cvars>>

Next ==
    \/ \E v \in Values : EncodeExample(v)
    \/ Call
    \/ Reduce
    \/ Reconstruct
    \/ \E v \in Values : DecodeBegin(v)
    \/ DecodeImport
    \/ DecodeStr
    \/ DecodeWithBody
    \/ DecodeWithExit
    \/ DecodeBytes
    \/ DecodeDict
    \/ DecodeFallThrough
    \/ DecodeReturn

Spec == Init /\ [][Next]_vars

\* ------------------------------------------------------------ batch calls
BatchNext == \E images \in SeqsUpTo(Images, MaxLen) : EncodeListOfImages(images)

BatchSpec == Init /\ [][BatchNext]_vars

\* ------------------------------------------- concurrent encode_example calls
\* Thread t enters encode_example(v).
T_Call(t, v) ==
    /\ tpc[t] = "idle"
    /\ tpc' = [tpc EXCEPT ![t] = "test"]
    /\ tval' = [tval EXCEPT ![t] = v]
    /\ UNCHANGED <<storage_dtype, svars, tret, lastWriter>>

\* The isinstance chain reads only the thread's own argument.
T_Test(t) ==
    /\ tpc[t] = "test"
    /\ tpc' = [tpc EXCEPT ![t] =
                 IF encode_example_dtype("unchanged", tval[t]) = "unchanged"
                 THEN "return" ELSE "store"]
    /\ UNCHANGED <<storage_dtype, svars, tval, tret, lastWriter>>

\* Mutant: the store is skipped once the field has left its default.
m_T_Store_first_wins(t) ==
    /\ tpc[t] = "store"
    /\ storage_dtype' = IF storage_dtype = "string"
                        THEN encode_example_dtype(storage_dtype, tval[t])
                        ELSE storage_dtype
    /\ lastWriter' = t
    /\ tpc' = [tpc EXCEPT ![t] = "return"]
    /\ UNCHANGED <<svars, tval, tret>>

\* self._storage_dtype = ...: one attribute store, with no lock around it.
T_Store(t) ==
    /\ tpc[t] = "store"
    /\ storage_dtype' = encode_example_dtype(storage_dtype, tval[t])
    /\ lastWriter' = t
    /\ tpc' = [tpc EXCEPT ![t] = "return"]
    /\ UNCHANGED <<svars, tval, tret>>

\* return value
T_Return(t) ==
    /\ tpc[t] = "return"
    /\ tret' = [tret EXCEPT ![t] = encode_example_return(tval[t])]
    /\ tpc' = [tpc EXCEPT ![t] = "done"]
    /\ UNCHANGED <<storage_dtype, svars, tval, lastWriter>>

ConcNext ==
    \/ \E t \in Threads, v \in Values : T_Call(t, v)
    \/ \E t \in Threads : T_Test(t)
    \/ \E t \in Threads : T_Store(t)
    \/ \E t \in Threads : T_Return(t)

ConcSpec == Init /\ [][ConcNext]_vars

\* ================================================================= claims
\* The storage shape the specification assigns to a value of each type.
ShapeOfKind(k) ==
    CASE k = "str" -> "string"
      [] k \in {"bytes", "ndarray"} -> "bytes"
      [] k = "dict" -> "struct"
      [] OTHER -> "unclassified"

\* The physical type the specification assigns to each storage shape.
PhysicalOfShape(shape) ==
    CASE shape = "string" -> [name |-> "string", fields |-> <<>>]
      [] shape = "bytes" -> [name |-> "binary", fields |-> <<>>]
      [] shape = "struct" ->
            [name |-> "struct",
             fields |-> << <<"path", "string">>, <<"bytes", "binary">> >>]

Encoded == ret.op = "encode_example" /\ pc = "idle"

Decoded == ret.op = "decode_example" /\ pc = "idle"

\* C1 (as stated): after any sequence of encode calls, _storage_dtype is the
\* shape of the most recently encoded value: "string" after a path string,
\* "bytes" after a byte blob, "struct" after a {path, bytes} mapping.
C1_ShapeOfLastEncoded ==
    lastEnc.kind \in {"str", "bytes", "dict"} =>
        storage_dtype = ShapeOfKind(lastEnc.kind)

\* C1 (amended): _storage_dtype is the shape of the most recently encoded value
\* when that value was a byte blob or a mapping; right after a path string was
\* encoded it is whatever it was before that call.
C1_ShapeOfLastEncodedUnlessPath ==
    /\ lastEnc.kind \in {"bytes", "dict"} => storage_dtype = ShapeOfKind(lastEnc.kind)
    /\ (Encoded /\ lastEnc.kind = "str") => storage_dtype = before.storage_dtype

\* C1 witness: a path string was just encoded on a descriptor that bytes had
\* moved to "bytes".
C1_Witness ==
    Encoded /\ lastEnc.kind = "str" /\ before.storage_dtype = "bytes"
            /\ storage_dtype = "bytes"

\* C2: encode of a byte blob, an array or a mapping returns the very value it
\* was given and leaves _storage_dtype at "bytes" (blob, array) or "struct"
\* (mapping), whatever the field held before the call.
C2_EncodeNonPath ==
    (Encoded /\ arg.kind \in {"bytes", "ndarray", "dict"}) =>
        /\ ret.exc = ""
        /\ ret.val = arg
        /\ storage_dtype = (IF arg.kind = "dict" THEN "struct" ELSE "bytes")

\* C2 witness: an array encoded on a descriptor that held "struct".
C2_Witness ==
    Encoded /\ arg.kind = "ndarray" /\ before.storage_dtype = "struct"
            /\ storage_dtype = "bytes" /\ ret.val = arg

\* C3: encode of a path string returns the string unchanged and leaves
\* _storage_dtype and id as they were before the call.
C3_EncodePathFrame ==
    (Encoded /\ arg.kind = "str") =>
        /\ ret.exc = ""
        /\ ret.val = arg
        /\ storage_dtype = before.storage_dtype
        /\ id = before.id

\* C3 witness: a path string encoded on a descriptor that held "struct".
C3_Witness ==
    Encoded /\ arg.kind = "str" /\ storage_dtype = "struct" /\ ret.val = arg

\* C4: a wrapper that was serialized and rebuilt was rebuilt from the 1-tuple
\* (storage_dtype) and equals a wrapper constructed directly with that shape:
\* same stored shape, same physical type, same extension class.
C4_ReduceRoundTrip ==
    rebuilt # NoValue =>
        /\ pickled.args = <<pa_type.storage_dtype>>
        /\ rebuilt.cls = "_ImageExtensionType"
        /\ rebuilt.storage_dtype = pa_type.storage_dtype
        /\ rebuilt.storage_type = PhysicalOfShape(pa_type.storage_dtype)
        /\ rebuilt = pa_type

\* C4 witness: a struct-shaped wrapper went through the round trip.
C4_Witness ==
    rebuilt # NoValue /\ pa_type.storage_dtype = "struct"
                      /\ rebuilt.storage_type.name = "struct"

\* C5: __call__ returns the Image wrapper over string / binary / struct{path,
\* bytes} according to the current _storage_dtype alone, and leaves
\* _storage_dtype unchanged.
C5_CallBuildsMatchingType ==
    (ret.op = "__call__" /\ pc = "idle") =>
        /\ storage_dtype \in {"string", "bytes", "struct"}
        /\ ret.val.cls = "_ImageExtensionType"
        /\ ret.val.storage_dtype = storage_dtype
        /\ ret.val.storage_type = PhysicalOfShape(storage_dtype)
        /\ storage_dtype = before.storage_dtype

\* C5 witness: the binary type is built although the last encoded value was a
\* path string (the history does not matter, the field does).
C5_Witness ==
    /\ ret.op = "__call__" /\ pc = "idle"
    /\ storage_dtype = "bytes"
    /\ lastEnc.kind = "str"
    /\ ret.val.storage_type.name = "binary"

\* C6: decode of a path string releases the stream on every exit path, and when
\* it returns an image, that image was fully materialized from the stream
\* before the stream was released.
C6_ReleasedAfterMaterialized ==
    (Decoded /\ arg.kind = "str") =>
        /\ f # "open"
        /\ ret.exc = "" => (f = "closed" /\ ret.val.materialized)

\* C7: decode of a value that is no string, no bytes and no mapping ends in an
\* error, returns nothing, opens no stream and leaves _storage_dtype unchanged.
C7_DecodeUnrecognizedFails ==
    (arg.kind \in {"ndarray", "other"} /\ (pc # "idle" \/ Decoded)) =>
        /\ f = "none"
        /\ storage_dtype = before.storage_dtype
        /\ Decoded => (ret.exc \in {"ImportError", "UnboundLocalError"}
                       /\ ret.val = NoValue)

\* C7 witness: the array encode accepted (and classified as "bytes") is handed
\* to decode, which fails at its return statement.
C7_Witness ==
    /\ Decoded
    /\ arg.kind = "ndarray" /\ arg = lastEnc
    /\ storage_dtype = "bytes"
    /\ ret.exc = "UnboundLocalError"

FirstFailure(images) ==
    LET bad == {k \in 1..Len(images) : image_to_bytes(images[k]).exc # ""}
    IN  IF bad = {} THEN 0 ELSE CHOOSE k \in bad : \A j \in bad : k <= j

\* C8: encode_list_of_images returns a list of the input's length whose k-th
\* element is image_to_bytes of the k-th image; if an image fails to encode,
\* the call fails with that error and returns nothing.
C8_BatchEncode ==
    ret.op = "encode_list_of_images" =>
        IF FirstFailure(arg) = 0
        THEN /\ ret.exc = ""
             /\ Len(ret.val) = Len(arg)
             /\ \A k \in 1..Len(arg) : ret.val[k] = image_to_bytes(arg[k]).val
        ELSE /\ ret.exc = image_to_bytes(arg[FirstFailure(arg)]).exc
             /\ ret.val = NoValue

\* C8 witness: two different images were encoded, in order.
C8_Witness ==
    /\ ret.op = "encode_list_of_images"
    /\ Len(arg) = 2 /\ arg[1] # arg[2]
    /\ ret.exc = ""
    /\ ret.val = <<image_to_bytes(arg[1]).val, image_to_bytes(arg[2]).val>>

AllDone == \A t \in Threads : tpc[t] = "done"

\* C9: concurrent encode calls each return their own value; when all are done
\* _storage_dtype is the shape stored by the call that stored last (the shape
\* of one of the non-string values, or the default if there was none); and no
\* pending store is ever held back, so any of them can be the last.
C9_LastWriteWins ==
    /\ \A t \in Threads : tpc[t] = "done" => tret[t] = tval[t]
    /\ \A t \in Threads : tpc[t] = "store" => ENABLED T_Store(t)
    /\ AllDone =>
         IF \E t \in Threads : tval[t].kind \in {"bytes", "ndarray", "dict"}
         THEN /\ lastWriter \in Threads
              /\ tval[lastWriter].kind \in {"bytes", "ndarray", "dict"}
              /\ storage_dtype = ShapeOfKind(tval[lastWriter].kind)
         ELSE lastWriter = 0 /\ storage_dtype = "string"

\* C9 witness: a mapping and a byte blob were encoded concurrently and the
\* mapping's store came last.
C9_Witness ==
    /\ AllDone
    /\ tval[1].kind = "dict" /\ tval[2].kind = "bytes"
    /\ lastWriter = 1
    /\ storage_dtype = "struct"

\* C9, the other order: with the same two values the byte blob's store can
\* come last as well.
C9_OtherOrderReachable ==
    /\ AllDone
    /\ tval[1].kind = "dict" /\ tval[2].kind = "bytes"
    /\ lastWriter = 2
    /\ storage_dtype = "bytes"

\* C10: _storage_dtype is "string" exactly as long as no byte blob, array or
\* mapping has been encoded; afterwards it is the shape of the most recent such
\* value, however many path strings, decodes and __call__s followed.
C10_NeverBackToString ==
    /\ storage_dtype = "string" <=> lastNonStr = NoValue
    /\ lastNonStr # NoValue => storage_dtype = ShapeOfKind(lastNonStr.kind)

\* C10 witness: an array, then a path string, were encoded, a wrapper was
\* built and a decode has finished; the field still says "bytes".
C10_Witness ==
    /\ lastNonStr.kind = "ndarray"
    /\ lastEnc.kind = "str"
    /\ pa_type # NoValue
    /\ Decoded
    /\ storage_dtype = "bytes"

====
